---- MODULE Spec2Model ----
(***************************************************************************)
(* The signed-request provisioning workflow of vanta-cli: the two entity   *)
(* commands `register` and `create_subaccount`, each modelled as one run   *)
(* that goes start -> unlock -> confirm -> balance -> sign -> submit and   *)
(* ends in "done" (a value was returned) or "raised" (an exception left    *)
(* the coroutine).  The wallet, the confirmation prompt and the validator  *)
(* API are the environment: their answers are chosen when the run asks.    *)
(*                                                                         *)
(* `run` is the run under study.  `twin` is the same call, given the same  *)
(* answers by the environment, with the `quiet` flag negated: it is what   *)
(* the interactive/programmatic comparison is stated on.                   *)
(*                                                                         *)
(* Python values: an optional value is None (<<>>) or Some(v) (<<v>>); a   *)
(* dict is a function from its keys; an amount of Theta is a fraction      *)
(* <<numerator, denominator>> with a positive denominator.  `verbose` is   *)
(* only forwarded to make_api_request as dev_mode and is left out.         *)
(***************************************************************************)
EXTENDS Integers, Sequences, FiniteSets, TLC

VARIABLES run, twin

vars == <<run, twin>>

----------------------------------------------------------------------------
(* Bounds of the model *)

\* account sizes tried: k * cost_per_theta / 2 for k in -1..MaxSizeHalfUnits
MaxSizeHalfUnits == 4
\* balances tried: n / 2 Theta for n in 0..MaxBalanceHalves
MaxBalanceHalves == 4
\* max_subaccounts values tried besides the default: 1..MaxSubaccountsTried
MaxSubaccountsTried == 1

----------------------------------------------------------------------------
(* Program constants *)

VANTA_API_BASE_URL_TESTNET == "https://validator.testnet.vantatrading.io"
VANTA_API_BASE_URL_MAINNET == "https://validator.mainnet.vantatrading.io"

max_account_size == 100000
cost_per_theta == 5000
registration_fee == 5000
DefaultMaxSubaccounts == 500

\* the asset classes offered by the interactive menu
assets == <<"crypto", "forex">>

----------------------------------------------------------------------------
(* Python values *)

None == <<>>
Some(v) == <<v>>

EmptyDict == [k \in {} |-> 0]

\* d.get(k)
Get(d, k) == IF k \in DOMAIN d THEN Some(d[k]) ELSE None

\* d.get(k, default)
GetOr(d, k, default) == IF k \in DOMAIN d THEN d[k] ELSE default

\* Python truthiness of an optional dict: None and {} are falsy
Falsy(response) == response = None \/ DOMAIN response[1] = {}

\* fractions
Rat(n, d) == <<n, d>>
RatLess(a, b) == a[1] * b[2] < b[1] * a[2]
RatStr(a) == ToString(a[1]) \o "/" \o ToString(a[2])

----------------------------------------------------------------------------
(* The wallet: the addresses of the two keys *)

ColdkeyAddress == "5Cold"
HotkeyAddress == "5Hot"

----------------------------------------------------------------------------
(* Inputs *)

\* --network carries any string: the test network, the main network, and a
\* name that is neither
Networks == {"test", "finney", "testnet"}

AccountSizes ==
    {(k * cost_per_theta) \div 2 : k \in -1 .. MaxSizeHalfUnits}
        \cup {max_account_size, max_account_size + 1, 2 * max_account_size}

\* what --asset-class can carry: any string
AssetClassOptions == {"crypto", "forex", "stocks"}

MaxSubaccountsValues == (1 .. MaxSubaccountsTried) \cup {DefaultMaxSubaccounts}

Balances ==
    {Rat(n, 2) : n \in 0 .. MaxBalanceHalves}
        \cup {Rat(max_account_size \div cost_per_theta, 1),
              Rat(registration_fee - 1, 1), Rat(registration_fee, 1)}

\* VantaCLIManager.entity_create_subaccount: the arguments of the call it makes.
\* A missing --account-size is asked for (size_answer), a missing --asset-class
\* is picked by number from the menu (choice); the password is not passed.
entity_create_subaccount(network, account_size, asset_class, prompt, quiet, json_output, size_answer, choice) ==
    [op |-> "create_subaccount",
     via |-> IF asset_class = None THEN "menu" ELSE "option",
     network |-> network,
     account_size |-> IF account_size = None THEN size_answer ELSE account_size[1],
     asset_class |-> IF asset_class = None THEN assets[choice] ELSE asset_class[1],
     prompt |-> prompt,
     quiet |-> quiet,
     json_output |-> json_output,
     password |-> None]

\* VantaCLIManager.entity_register: a missing --max-subaccounts is asked for,
\* with the default as the answer.
entity_register(network, max_subaccounts, prompt, quiet, json_output) ==
    [op |-> "register",
     network |-> network,
     max_subaccounts |-> IF max_subaccounts = None THEN DefaultMaxSubaccounts
                         ELSE max_subaccounts[1],
     prompt |-> prompt,
     quiet |-> quiet,
     json_output |-> json_output]

CliCreateCalls ==
    {entity_create_subaccount(n, s, c, p, q, j, a, i) :
        n \in Networks,
        s \in {None} \cup {Some(x) : x \in AccountSizes},
        c \in {None} \cup {Some(x) : x \in AssetClassOptions},
        p \in BOOLEAN, q \in BOOLEAN, j \in BOOLEAN,
        a \in AccountSizes, i \in 1 .. Len(assets)}

\* create_subaccount called by a program (the miner server), with a password
ApiCreateCalls ==
    {[op |-> "create_subaccount", via |-> "api", network |-> n,
      account_size |-> s, asset_class |-> c, prompt |-> p, quiet |-> q,
      json_output |-> j, password |-> Some("pw")] :
        n \in Networks, s \in AccountSizes, c \in AssetClassOptions,
        p \in BOOLEAN, q \in BOOLEAN, j \in BOOLEAN}

RegisterCalls ==
    {entity_register(n, m, p, q, j) :
        n \in Networks,
        m \in {None} \cup {Some(x) : x \in MaxSubaccountsValues},
        p \in BOOLEAN, q \in BOOLEAN, j \in BOOLEAN}

Calls == CliCreateCalls \cup ApiCreateCalls \cup RegisterCalls

----------------------------------------------------------------------------
(* A run *)

NoResult == [kind |-> "none"]

\* the state of a call that has not executed its first statement
NewRun(call) ==
    [op |-> call.op,
     args |-> call,
     pc |-> "start",
     base_url |-> None,
     required_theta |-> None,
     coldkey_held |-> FALSE,
     unlock |-> None,
     confirm |-> None,
     gate |-> "unchecked",
     available |-> None,
     message |-> <<>>,
     signature |-> None,
     payload |-> None,
     calls |-> <<>>,
     responses |-> <<>>,
     signs |-> 0,
     console |-> <<>>,
     result |-> NoResult,
     exit |-> "none",
     exception |-> "none"]

console_print(r, tags) == [r EXCEPT !.console = @ \o tags]

\* `if not quiet: console.print(...)`
print_unless_quiet(r, tags) == IF r.args.quiet THEN r ELSE console_print(r, tags)

\* `return value`, at the return statement named by site
Return(r, value, site) ==
    [r EXCEPT !.pc = "done", !.result = value, !.exit = site, !.coldkey_held = FALSE]

\* an exception that no handler of the function catches
Raise(r, exc) ==
    [r EXCEPT !.pc = "raised", !.exception = exc, !.exit = "uncaught",
              !.coldkey_held = FALSE]

ErrorDict(message) == [kind |-> "dict", status |-> "error", message |-> message]

Bool(b) == [kind |-> "bool", value |-> b]

Terminal(r) == r.pc \in {"done", "raised"}

\* mutant: the main network is recognised by name and every other value is
\* sent to the testnet validator
BaseUrlUnlessFinney(network) ==
    IF network = "finney" THEN VANTA_API_BASE_URL_MAINNET ELSE VANTA_API_BASE_URL_TESTNET

BaseUrl(network) ==
    IF network = "test" THEN VANTA_API_BASE_URL_TESTNET ELSE VANTA_API_BASE_URL_MAINNET

----------------------------------------------------------------------------
(* start: header, base URL, validation, configuration table *)

\* mutant: the ceiling is not checked before the wallet is asked for
ExceedsMaximumIgnored(account_size) == FALSE

ExceedsMaximum(account_size) == account_size > max_account_size

\* mutant: the positivity check written with < instead of <=
NotPositiveStrict(account_size) == account_size < 0

NotPositive(account_size) == account_size <= 0

\* mutant: floor division `//` in place of `/`
RequiredThetaFloor(account_size) == Rat(account_size \div cost_per_theta, 1)

\* `required_theta = account_size / cost_per_theta`
RequiredTheta(account_size) == Rat(account_size, cost_per_theta)

CreateStart(r) ==
    LET a == r.args
        r1 == IF ~a.json_output /\ ~a.quiet
              THEN console_print(r, <<"header", "creating">>) ELSE r
        r2 == [r1 EXCEPT !.base_url = Some(BaseUrl(a.network))]
    IN  IF ExceedsMaximum(a.account_size)
        THEN LET error_msg == <<"Account size $", ToString(a.account_size),
                                " exceeds maximum $", ToString(max_account_size)>>
             IN  Return(print_unless_quiet(r2, <<"error">>), ErrorDict(error_msg),
                        "out_of_range")
        ELSE IF NotPositive(a.account_size)
        THEN LET error_msg == <<"Account size must be positive">>
             IN  Return(print_unless_quiet(r2, <<"error">>), ErrorDict(error_msg),
                        "out_of_range")
        ELSE LET r3 == [r2 EXCEPT !.required_theta = Some(RequiredTheta(a.account_size))]
                 r4 == IF ~a.json_output /\ ~a.quiet
                       THEN console_print(r3, <<"config_table">>) ELSE r3
             IN  [r4 EXCEPT !.pc = "unlock"]

RegisterStart(r) ==
    LET a == r.args
        r1 == IF ~a.json_output THEN console_print(r, <<"header", "registering">>) ELSE r
        r2 == [r1 EXCEPT !.base_url = Some(BaseUrl(a.network)),
                         !.required_theta = Some(Rat(registration_fee, 1))]
        r3 == IF ~a.json_output THEN console_print(r2, <<"config_table">>) ELSE r2
    IN  [r3 EXCEPT !.pc = "unlock"]

StartStep(r) == IF r.op = "register" THEN RegisterStart(r) ELSE CreateStart(r)

Start ==
    /\ run.pc = "start"
    /\ run' = StartStep(run)
    /\ twin' = StartStep(twin)

----------------------------------------------------------------------------
(* unlock: password prompt and wallet.get_coldkey *)

\* what wallet.get_coldkey does: None when it returns the key, Some(text) when
\* it raises (wrong password, missing key file)
WalletOutcomes == {None, Some("Decryption failed")}

\* mutant: the exception of get_coldkey is swallowed and the run goes on
UnlockFailedIgnored(outcome) == FALSE

\* the `except Exception` clause around get_coldkey is entered
UnlockFailed(outcome) == outcome # None

CreateUnlock(r, outcome) ==
    LET r0 == IF r.args.password = None THEN console_print(r, <<"password_prompt">>) ELSE r
        r1 == [r0 EXCEPT !.unlock = Some(outcome)]
    IN  IF UnlockFailed(outcome)
        THEN LET error_msg == <<"Failed to unlock wallet: ", outcome[1]>>
             IN  Return(print_unless_quiet(r1, <<"error">>), ErrorDict(error_msg),
                        "unlock_failed")
        ELSE [r1 EXCEPT !.coldkey_held = TRUE, !.pc = "confirm"]

RegisterUnlock(r, outcome) ==
    LET r1 == [console_print(r, <<"password_prompt">>) EXCEPT !.unlock = Some(outcome)]
    IN  IF UnlockFailed(outcome)
        THEN Return(console_print(r1, <<"error">>), Bool(FALSE), "unlock_failed")
        ELSE [r1 EXCEPT !.coldkey_held = TRUE, !.pc = "confirm"]

UnlockStep(r, outcome) ==
    IF r.op = "register" THEN RegisterUnlock(r, outcome) ELSE CreateUnlock(r, outcome)

UnlockWallet ==
    /\ run.pc = "unlock"
    /\ \E outcome \in WalletOutcomes :
        /\ run' = UnlockStep(run, outcome)
        /\ twin' = UnlockStep(twin, outcome)

----------------------------------------------------------------------------
(* confirm: typer.confirm when prompt is set *)

\* mutant: the answer is not looked at
DeclinedNever(prompt, confirm) == FALSE

\* mutant: `if confirm:` in place of `if not confirm:`
DeclinedInverted(prompt, confirm) == prompt /\ confirm

\* `if prompt: ... if not confirm:`
Declined(prompt, confirm) == prompt /\ ~confirm

CreateConfirm(r, confirm) ==
    LET r1 == IF r.args.prompt
              THEN [console_print(r, <<"confirm_prompt">>) EXCEPT !.confirm = Some(confirm)]
              ELSE r
    IN  IF Declined(r.args.prompt, confirm)
        THEN LET cancel_msg == <<"Subaccount creation cancelled">>
             IN  Return(print_unless_quiet(r1, <<"cancel">>), ErrorDict(cancel_msg),
                        "cancelled")
        ELSE [r1 EXCEPT !.pc = "balance"]

RegisterConfirm(r, confirm) ==
    LET r1 == IF r.args.prompt
              THEN [console_print(r, <<"confirm_prompt">>) EXCEPT !.confirm = Some(confirm)]
              ELSE r
    IN  IF Declined(r.args.prompt, confirm)
        THEN Return(console_print(r1, <<"cancel">>), Bool(FALSE), "cancelled")
        ELSE [r1 EXCEPT !.pc = "balance"]

ConfirmStep(r, confirm) ==
    IF r.op = "register" THEN RegisterConfirm(r, confirm) ELSE CreateConfirm(r, confirm)

Confirm ==
    /\ run.pc = "confirm"
    /\ \E confirm \in BOOLEAN :
        /\ run' = ConfirmStep(run, confirm)
        /\ twin' = ConfirmStep(twin, confirm)

----------------------------------------------------------------------------
(* balance: GET /collateral/balance/<hotkey> and the comparison *)

Zero == Rat(0, 1)

\* make_api_request: the parsed JSON object of the response, or None when the
\* request failed in transport
BalanceResponses ==
    {None, Some(EmptyDict), Some([error |-> "Miner not found"])}
        \cup {Some([balance_theta |-> b]) : b \in Balances}

\* the call is recorded with the answer the environment gave it
make_api_request(r, method, path, body, response) ==
    [r EXCEPT !.calls = Append(@, [method |-> method, base_url |-> r.base_url[1],
                                   path |-> path, body |-> body]),
              !.responses = Append(@, response)]

BalancePath == "/collateral/balance/" \o HotkeyAddress

\* mutant: the comparison turned around
BelowRequiredFlipped(balance, required) == RatLess(required, balance)

\* mutant: `<=` in place of `<`: a balance equal to the requirement is refused
BelowRequiredOrEqual(balance, required) == ~RatLess(required, balance)

\* `balance < required`
BelowRequired(balance, required) == RatLess(balance, required)

CreateCheckBalance(r, response) ==
    LET r1 == make_api_request(r, "GET", BalancePath, None, response)
        required == r.required_theta[1]
    IN  IF Falsy(response) \/ BelowRequired(GetOr(response[1], "balance_theta", Zero), required)
        THEN LET balance == IF ~Falsy(response)
                            THEN GetOr(response[1], "balance_theta", Zero) ELSE Zero
                 error_msg == <<"Insufficient collateral for subaccount creation: ",
                                RatStr(balance), " Theta available, ",
                                RatStr(required), " Theta required">>
                 r2 == [r1 EXCEPT !.gate = "insufficient", !.available = Some(balance)]
             IN  Return(print_unless_quiet(r2, <<"error">>), ErrorDict(error_msg),
                        "insufficient")
        ELSE [r1 EXCEPT !.gate = "sufficient",
                        !.available = Some(GetOr(response[1], "balance_theta", Zero)),
                        !.pc = "sign"]

\* `not response or response.get("balance_theta") < registration_fee`, then the
\* message reads response.get('balance_theta') again: None has no get, and
\* None < 5000 is a TypeError
RegisterCheckBalance(r, response) ==
    LET r1 == make_api_request(r, "GET", BalancePath, None, response)
        required == r.required_theta[1]
    IN  IF response = None
        THEN Raise([r1 EXCEPT !.gate = "raised"], "AttributeError")
        ELSE IF Falsy(response)
        THEN Return(console_print([r1 EXCEPT !.gate = "insufficient"], <<"error">>),
                    Bool(FALSE), "insufficient")
        ELSE IF Get(response[1], "balance_theta") = None
        THEN Raise([r1 EXCEPT !.gate = "raised"], "TypeError")
        ELSE IF BelowRequired(response[1].balance_theta, required)
        THEN Return(console_print([r1 EXCEPT !.gate = "insufficient",
                                              !.available = Some(response[1].balance_theta)],
                                  <<"error">>),
                    Bool(FALSE), "insufficient")
        ELSE [r1 EXCEPT !.gate = "sufficient",
                        !.available = Some(response[1].balance_theta),
                        !.pc = "sign"]

CheckBalanceStep(r, response) ==
    IF r.op = "register" THEN RegisterCheckBalance(r, response)
    ELSE CreateCheckBalance(r, response)

CheckBalance ==
    /\ run.pc = "balance"
    /\ \E response \in BalanceResponses :
        /\ run' = CheckBalanceStep(run, response)
        /\ twin' = CheckBalanceStep(twin, response)

----------------------------------------------------------------------------
(* sign: the request fields, the message, the signature, the payload *)

\* a dict literal is the sequence of its <<key, value>> items in insertion order

subaccount_data(coldkey, hotkey, account_size, asset_class) ==
    << <<"entity_coldkey", coldkey>>, <<"entity_hotkey", hotkey>>,
       <<"account_size", account_size>>, <<"asset_class", asset_class>> >>

\* mutant: the commented-out max_subaccounts line put back, with the default
registration_data_with_max(coldkey, hotkey) ==
    << <<"entity_coldkey", coldkey>>, <<"entity_hotkey", hotkey>>,
       <<"max_subaccounts", DefaultMaxSubaccounts>> >>

registration_data(coldkey, hotkey) ==
    << <<"entity_coldkey", coldkey>>, <<"entity_hotkey", hotkey>> >>

\* the order of Python's string comparison on the keys that occur
KeyOrder ==
    <<"account_size", "asset_class", "entity_coldkey", "entity_hotkey",
      "max_subaccounts", "signature">>

KeyRank(k) == CHOOSE i \in 1 .. Len(KeyOrder) : KeyOrder[i] = k

RECURSIVE InsertItem(_, _)
InsertItem(item, sorted) ==
    IF sorted = <<>> THEN <<item>>
    ELSE IF KeyRank(item[1]) < KeyRank(Head(sorted)[1]) THEN <<item>> \o sorted
    ELSE <<Head(sorted)>> \o InsertItem(item, Tail(sorted))

RECURSIVE SortItems(_)
SortItems(items) ==
    IF items = <<>> THEN <<>> ELSE InsertItem(Head(items), SortItems(Tail(items)))

\* mutant: json.dumps(data) without sort_keys: the items in insertion order
json_dumps_unsorted(data) ==
    [i \in 1 .. Len(data) |-> <<data[i][1], ToString(data[i][2])>>]

\* json.dumps(data, sort_keys=True): the items by key, each value in its JSON
\* text (a number in digits, a string in quotes)
json_dumps_sorted(data) ==
    LET items == SortItems(data)
    IN  [i \in 1 .. Len(items) |-> <<items[i][1], ToString(items[i][2])>>]

\* mutant: the payload dict, with a signature key, is what gets serialized
MessageToSignWithSignature(data) == json_dumps_sorted(Append(data, <<"signature", "">>))

\* `message = json.dumps(<the data dict>, sort_keys=True)`
MessageToSign(data) == json_dumps_sorted(data)

\* coldkey.sign(message.encode('utf-8')).hex()
Sign(coldkey, message) == [hex |-> [signer |-> coldkey, over |-> message]]

\* mutant: the payload is written out without the last data field
PayloadMissingField(data, signature) ==
    Append(SubSeq(data, 1, Len(data) - 1), <<"signature", signature>>)

\* the payload dict: the data items again, then the signature
Payload(data, signature) == Append(data, <<"signature", signature>>)

SignWith(r, data, tags) ==
    LET message == MessageToSign(data)
        signature == Sign(ColdkeyAddress, message)
    IN  [console_print(r, tags) EXCEPT !.message = message,
                                       !.signs = @ + 1,
                                       !.signature = Some(signature),
                                       !.payload = Some(Payload(data, signature)),
                                       !.pc = "submit"]

CreateSign(r) ==
    SignWith(r, subaccount_data(ColdkeyAddress, HotkeyAddress,
                                r.args.account_size, r.args.asset_class),
             IF r.args.quiet THEN <<>> ELSE <<"signing">>)

RegisterSign(r) ==
    SignWith(r, registration_data(ColdkeyAddress, HotkeyAddress), <<"signing">>)

SignStep(r) == IF r.op = "register" THEN RegisterSign(r) ELSE CreateSign(r)

SignRequest ==
    /\ run.pc = "sign"
    /\ run' = SignStep(run)
    /\ twin' = SignStep(twin)

----------------------------------------------------------------------------
(* submit: POST of the payload and the reading of the response *)

SubaccountObjects ==
    {[synthetic_hotkey |-> "5Hot_1", subaccount_id |-> 1, subaccount_uuid |-> "uuid-1",
      account_size |-> 10000, asset_class |-> "crypto", status |-> "active"],
     [synthetic_hotkey |-> "5Hot_2", subaccount_id |-> 2, subaccount_uuid |-> "uuid-2",
      account_size |-> 2500, asset_class |-> "forex", status |-> "pending"],
     [synthetic_hotkey |-> "5Hot_3", subaccount_id |-> 3, subaccount_uuid |-> "uuid-3",
      asset_class |-> "crypto", status |-> "active"]}

RemoteErrors ==
    {Some([status |-> "error", error |-> "Insufficient collateral balance"]),
     Some([status |-> "error", error |-> ""]),
     Some([status |-> "error"])}

CreateResponses ==
    {None}
        \cup {Some([status |-> "success", message |-> "Subaccount 1 created",
                    subaccount |-> s]) : s \in SubaccountObjects}
        \cup {Some([status |-> "success", subaccount |-> s]) : s \in SubaccountObjects}
        \cup {Some([status |-> "success", message |-> "Subaccount 1 created"])}
        \cup RemoteErrors

RegisterResponses ==
    {None,
     Some([status |-> "success", message |-> "Entity registered",
           entity_hotkey |-> HotkeyAddress, max_subaccounts |-> DefaultMaxSubaccounts]),
     Some([status |-> "success"])}
        \cup RemoteErrors

SubmitResponses(op) == IF op = "register" THEN RegisterResponses ELSE CreateResponses

\* mutant: the server's text is dropped and the fixed text always used
ErrorMessageDropped(response) == "Unknown error occurred"

\* `response.get("error") or "Unknown error occurred"`: a missing and an empty
\* text are both falsy
ErrorMessage(response) ==
    IF Get(response, "error") \in {None, Some("")} THEN "Unknown error occurred"
    ELSE response.error

\* f"${subaccount.get('account_size'):,.2f}" raises TypeError when the value is
\* None: None does not take the format ',.2f'
SuccessTableRaises(subaccount) == Get(subaccount, "account_size") = None

SuccessDict(success_msg, subaccount, required_theta) ==
    [kind |-> "dict",
     status |-> "success",
     message |-> success_msg,
     subaccount |-> [synthetic_hotkey |-> Get(subaccount, "synthetic_hotkey"),
                     subaccount_id |-> Get(subaccount, "subaccount_id"),
                     subaccount_uuid |-> Get(subaccount, "subaccount_uuid"),
                     account_size |-> Get(subaccount, "account_size"),
                     asset_class |-> Get(subaccount, "asset_class"),
                     status |-> Get(subaccount, "status")],
     collateral_charged |-> required_theta]

CreateSubmit(r, response) ==
    LET r1 == print_unless_quiet(r, <<"sending">>)
        r2 == make_api_request(r1, "POST", "/entity/create-subaccount", r.payload, response)
    IN  IF response = None
        THEN LET error_msg == <<"Subaccount creation failed - no response from API">>
             IN  Return(print_unless_quiet(r2, <<"error">>), ErrorDict(error_msg),
                        "no_response")
        ELSE IF Get(response[1], "status") = Some("success")
        THEN LET success_msg == <<GetOr(response[1], "message",
                                        "Subaccount created successfully")>>
                 subaccount == GetOr(response[1], "subaccount", EmptyDict)
             IN  IF ~r.args.quiet /\ SuccessTableRaises(subaccount)
                 THEN \* caught by `except Exception as e`
                      LET error_msg == <<"Error during subaccount creation: ", "TypeError">>
                      IN  Return(console_print(r2, <<"success_msg", "error">>),
                                 ErrorDict(error_msg), "exception_caught")
                 ELSE Return(print_unless_quiet(r2, <<"success_msg", "success_table",
                                                      "success_panel">>),
                             SuccessDict(success_msg, subaccount, r.required_theta[1]),
                             "success")
        ELSE LET error_message == ErrorMessage(response[1])
             IN  Return(print_unless_quiet(r2, <<"error">>),
                        ErrorDict(<<"Subaccount creation failed: ", error_message>>),
                        "remote_rejected")

RegisterSubmit(r, response) ==
    LET r1 == console_print(r, <<"sending">>)
        r2 == make_api_request(r1, "POST", "/entity/register", r.payload, response)
    IN  IF response = None
        THEN Return(console_print(r2, <<"error">>), Bool(FALSE), "no_response")
        ELSE IF Get(response[1], "status") = Some("success")
        THEN Return(console_print(r2, <<"success_msg", "success_table", "success_panel">>),
                    Bool(TRUE), "success")
        ELSE Return(console_print(r2, <<"error">>), Bool(FALSE), "remote_rejected")

\* mutant: a submission that got no response is sent again
SubmitStepRetry(r, response) ==
    IF response = None
    THEN make_api_request(r, "POST",
                          IF r.op = "register" THEN "/entity/register"
                          ELSE "/entity/create-subaccount",
                          r.payload, response)
    ELSE IF r.op = "register" THEN RegisterSubmit(r, response)
    ELSE CreateSubmit(r, response)

\* mutant: a non-success status is raised (raise_for_status style), not returned
SubmitStepRaiseOnRejection(r, response) ==
    IF response # None /\ Get(response[1], "status") # Some("success")
    THEN Raise(make_api_request(r, "POST",
                                IF r.op = "register" THEN "/entity/register"
                                ELSE "/entity/create-subaccount",
                                r.payload, response),
               "RuntimeError")
    ELSE IF r.op = "register" THEN RegisterSubmit(r, response)
    ELSE CreateSubmit(r, response)

SubmitStep(r, response) ==
    IF r.op = "register" THEN RegisterSubmit(r, response) ELSE CreateSubmit(r, response)

SendRequest ==
    /\ run.pc = "submit"
    /\ \E response \in SubmitResponses(run.op) :
        /\ run' = SubmitStep(run, response)
        /\ twin' = SubmitStep(twin, response)

----------------------------------------------------------------------------

Init ==
    \E call \in Calls :
        /\ run = NewRun(call)
        /\ twin = NewRun([call EXCEPT !.quiet = ~call.quiet])

Next ==
    \/ Start
    \/ UnlockWallet
    \/ Confirm
    \/ CheckBalance
    \/ SignRequest
    \/ SendRequest

Spec == Init /\ [][Next]_vars

\* Each function is one coroutine of straight-line code: once a statement has
\* returned, the next one runs.  The external calls (get_coldkey, typer.confirm,
\* make_api_request) are taken to return or fail, so the step that waits for
\* one is eventually taken.
Fairness ==
    /\ WF_vars(Start)
    /\ WF_vars(UnlockWallet)
    /\ WF_vars(Confirm)
    /\ WF_vars(CheckBalance)
    /\ WF_vars(SignRequest)
    /\ WF_vars(SendRequest)

LiveSpec == Spec /\ Fairness

----------------------------------------------------------------------------
(* What the runs are observed by *)

IsCreate(r) == r.op = "create_subaccount"

Posts(r) == {i \in 1 .. Len(r.calls) : r.calls[i].method = "POST"}

Gets(r) == {i \in 1 .. Len(r.calls) : r.calls[i].method = "GET"}

\* the run returned a value that reports a failure
ReturnedError(r) ==
    /\ r.pc = "done"
    /\ \/ r.result.kind = "dict" /\ r.result.status = "error"
       \/ r.result.kind = "bool" /\ r.result.value = FALSE

\* the balance request has been answered
BalanceAnswered(r) == Len(r.responses) >= 1

\* the answer carries a balance field
HasBalance(r) == r.responses[1] # None /\ "balance_theta" \in DOMAIN r.responses[1][1]

\* the fetched balance b is smaller than the required amount: account_size /
\* cost_per_theta for a subaccount, registration_fee for a registration
BalanceTooSmall(r) ==
    LET b == r.responses[1][1].balance_theta
    IN  IF IsCreate(r) THEN b[1] * cost_per_theta < r.args.account_size * b[2]
        ELSE b[1] < registration_fee * b[2]

----------------------------------------------------------------------------
(* Claims *)

\* C1: in create_subaccount, an account_size <= 0 or above the ceiling of 100000
\* ends the run with an error result, and no network call (no balance fetch, no
\* submission) is made at any point of that run.
C1_OutOfRangeRejectedBeforeNetwork ==
    (/\ IsCreate(run)
     /\ run.pc # "start"
     /\ (run.args.account_size <= 0 \/ run.args.account_size > 100000))
        => /\ ReturnedError(run)
           /\ run.exit = "out_of_range"
           /\ run.calls = <<>>

C1_Witness ==
    /\ IsCreate(run)
    /\ run.args.account_size = 0
    /\ run.pc = "done"
    /\ run.calls = <<>>

\* C2 (as claimed): an asset_class outside {crypto, forex} is rejected by local
\* validation: the run makes no balance fetch, no signature and no submission,
\* and ends with an error.
C2_InvalidAssetClassRejectedLocally ==
    (IsCreate(run) /\ run.args.asset_class \notin {"crypto", "forex"})
        => /\ run.calls = <<>>
           /\ run.signs = 0
           /\ (Terminal(run) => ReturnedError(run))

C4_DeclinedCancelsWithoutSubmission ==
    (run.args.prompt /\ run.confirm = Some(FALSE))
        => /\ ReturnedError(run)
           /\ run.exit = "cancelled"
           /\ Posts(run) = {}

C4_Witness ==
    /\ run.op = "register"
    /\ run.args.prompt
    /\ run.confirm = Some(FALSE)
    /\ run.exit = "cancelled"

\* C5: in both operations, when wallet.get_coldkey raises, the run ends with the
\* unlock failure reported and without any network call.
C5_KeyUnavailableBeforeNetwork ==
    (run.unlock # None /\ run.unlock[1] # None)
        => /\ ReturnedError(run)
           /\ run.exit = "unlock_failed"
           /\ run.calls = <<>>

C5_Witness ==
    /\ IsCreate(run)
    /\ run.unlock = Some(Some("Decryption failed"))
    /\ run.pc = "done"

\* C6 (as claimed): every terminal outcome of both operations is a structured
\* result with status "success" or "error" and a message.
C6_EveryOutcomeIsStructured ==
    Terminal(run)
        => /\ run.result.kind = "dict"
           /\ run.result.status \in {"success", "error"}
           /\ "message" \in DOMAIN run.result

\* C7 (as claimed): create_subaccount returns the same result with quiet=False
\* and with quiet=True, for the same request and the same answers of the wallet,
\* the user and the remote.
C7_ResultIndependentOfQuiet ==
    (IsCreate(run) /\ Terminal(run)) => run.result = twin.result

\* C8 (as claimed): every failure is turned into a returned result; no run ends
\* in an uncaught exception.
C8_NoUncaughtException ==
    Terminal(run) => (run.pc = "done" /\ run.result # NoResult)

\* C9 (as claimed): in both operations, a balance fetch that got no response, or
\* a response without a balance field, makes the gate report insufficient with
\* available = 0, and the run neither signs nor submits.
C9_FailedFetchIsInsufficientZero ==
    (BalanceAnswered(run) /\ ~HasBalance(run))
        => /\ run.gate = "insufficient"
           /\ run.available = Some(Zero)
           /\ run.signs = 0
           /\ Posts(run) = {}

\* C10: in every run that reaches signing, no field of the signed message is the
\* signature field.
C10_SignatureNotInSignedMessage ==
    run.signs > 0
        => \A i \in 1 .. Len(run.message) : run.message[i][1] # "signature"

C10_Witness ==
    /\ run.signs > 0
    /\ {run.message[i][1] : i \in 1 .. Len(run.message)}
         = {"account_size", "asset_class", "entity_coldkey", "entity_hotkey"}
    /\ run.payload[1][Len(run.payload[1])][1] = "signature"

\* the dict literals with the same items inserted in another order
Reorderings(data) ==
    LET n == Len(data)
        perms == {f \in [1 .. n -> 1 .. n] : \A i, j \in 1 .. n : f[i] = f[j] => i = j}
    IN  {[i \in 1 .. n |-> data[f[i]]] : f \in perms}

\* the data dict the run signed: its payload without the signature item
SignedData(r) == SubSeq(r.payload[1], 1, Len(r.payload[1]) - 1)

\* C11: the message to sign does not depend on the order in which the fields
\* were inserted: every reordering of the data dict serializes to the message
\* the run signed, and that message lists the fields by name in lexicographic
\* order, each with its value.
C11_MessageIsOrderIndependent ==
    run.signs > 0
        => /\ \A d \in Reorderings(SignedData(run)) : MessageToSign(d) = run.message
           /\ [i \in 1 .. Len(run.message) |-> run.message[i][1]]
                = IF IsCreate(run)
                  THEN <<"account_size", "asset_class", "entity_coldkey", "entity_hotkey">>
                  ELSE <<"entity_coldkey", "entity_hotkey">>
           /\ IsCreate(run)
                => /\ run.message[1][2] = ToString(run.args.account_size)
                   /\ run.message[2][2] = ToString(run.args.asset_class)

C11_Witness ==
    /\ IsCreate(run)
    /\ run.signs > 0
    /\ SignedData(run)[1][1] = "entity_coldkey"
    /\ run.message[1][1] = "account_size"
    /\ Cardinality(Reorderings(SignedData(run))) > 1

\* the submission has been answered, and the answer
SubmitAnswered(r) == Posts(r) # {}

SubmitResponse(r) == r.responses[Len(r.responses)]

RemoteSaidSuccess(r) ==
    /\ SubmitAnswered(r)
    /\ SubmitResponse(r) # None
    /\ Get(SubmitResponse(r)[1], "status") = Some("success")

ConfirmationFields ==
    {"synthetic_hotkey", "subaccount_id", "subaccount_uuid", "account_size",
     "asset_class", "status"}

\* C12 (as claimed): when the submission response has status "success",
\* create_subaccount returns a success result whose confirmation fields are the
\* values of the response's subaccount object, unchanged.
C12_SuccessCarriesConfirmationFields ==
    (IsCreate(run) /\ RemoteSaidSuccess(run))
        => /\ run.result.kind = "dict"
           /\ run.result.status = "success"
           /\ \A f \in ConfirmationFields :
                run.result.subaccount[f]
                    = Get(GetOr(SubmitResponse(run)[1], "subaccount", EmptyDict), f)

RemoteRejected(r) ==
    /\ SubmitAnswered(r)
    /\ SubmitResponse(r) # None
    /\ Get(SubmitResponse(r)[1], "status") # Some("success")

\* the response carries an error text
HasErrorText(r) ==
    "error" \in DOMAIN SubmitResponse(r)[1] /\ SubmitResponse(r)[1].error # ""

\* C13 (as claimed): when the submission response has a status other than
\* "success", the result is an error whose message is the server-supplied error
\* message verbatim, not altered, prefixed or replaced.  It is read here on the
\* results that carry a message (register's boolean carries none), so that what
\* violates it is the message and not the shape of the result.
C13_RemoteErrorVerbatim ==
    (RemoteRejected(run) /\ HasErrorText(run) /\ run.result.kind = "dict")
        => /\ run.result.status = "error"
           /\ run.result.message = <<SubmitResponse(run)[1].error>>

\* C13 (amended): when the submission response has a status other than
\* "success", create_subaccount returns an error whose message is the prefix
\* "Subaccount creation failed: " followed by the server-supplied error text
\* verbatim, or by "Unknown error occurred" when the response carries no error
\* text; register returns False.
C13_RemoteErrorPrefixed ==
    RemoteRejected(run)
        => IF IsCreate(run)
           THEN run.result
                    = [kind |-> "dict", status |-> "error",
                       message |-> <<"Subaccount creation failed: ",
                                     IF HasErrorText(run)
                                     THEN SubmitResponse(run)[1].error
                                     ELSE "Unknown error occurred">>]
           ELSE run.result = [kind |-> "bool", value |-> FALSE]

C13_Witness ==
    /\ IsCreate(run)
    /\ RemoteRejected(run)
    /\ HasErrorText(run)
    /\ run.result.message[2] = "Insufficient collateral balance"

RatEq(a, b) == a[1] * b[2] = b[1] * a[2]

ValidSizes == {x \in AccountSizes : x > 0 /\ x <= max_account_size}

\* C14: the required collateral computed by a run is account_size at the rate
\* of 5000 per Theta: the amount required for twice the size is twice the amount,
\* no smaller size requires more, and a size of 10000 requires 2.
C14_RequiredCollateralLinear ==
    (IsCreate(run) /\ run.required_theta # None)
        => LET x == run.args.account_size
               req == run.required_theta[1]
           IN  /\ req[2] > 0
               /\ req[1] * 5000 = x * req[2]
               /\ \A y \in ValidSizes :
                    /\ y = 2 * x => RatEq(RequiredTheta(y), Rat(2 * req[1], req[2]))
                    /\ y <= x => ~RatLess(req, RequiredTheta(y))
               /\ x = 10000 => RatEq(req, Rat(2, 1))

C14_Witness ==
    /\ IsCreate(run)
    /\ run.args.account_size = 10000
    /\ run.required_theta # None
    /\ RatEq(run.required_theta[1], Rat(2, 1))
    /\ 5000 \in ValidSizes

\* C15 (as claimed): with quiet=True, create_subaccount writes nothing to the
\* console on any path, the password prompt and the confirmation prompt
\* included.
C15_QuietPrintsNothing ==
    (IsCreate(run) /\ run.args.quiet) => run.console = <<>>

\* the stages of a run, in the order of the code
StageOrder == <<"start", "unlock", "confirm", "balance", "sign", "submit", "done">>

StageRank(pc) == CHOOSE i \in 1 .. Len(StageOrder) : StageOrder[i] = pc

\* C16 (as claimed): a run goes through its stages strictly in order: the
\* balance is fetched only in the balance stage, the signature made only in the
\* signing stage after it, the submission sent only in the submission stage
\* after that; each step either moves to the next stage or, on a failure, ends
\* the run at once with its terminal result; a run that has ended does nothing
\* more.
C16_StagesInOrderFailFast ==
    [][/\ ~Terminal(run)
       /\ \/ run'.pc = StageOrder[StageRank(run.pc) + 1]
          \/ run'.pc = "done" /\ run'.result # NoResult
       /\ Len(run'.calls) > Len(run.calls) => run.pc \in {"balance", "submit"}
       /\ Gets(run') # Gets(run) => run.pc = "balance"
       /\ Posts(run') # Posts(run) => run.pc = "submit"
       /\ run'.signs # run.signs => run.pc = "sign"]_vars

\* C17 (as claimed): with prompt enabled, the user is asked to confirm only
\* after the balance fetch has completed and found the balance sufficient.
C17_ConfirmAfterBalanceCheck ==
    (run.args.prompt /\ run.confirm # None)
        => /\ BalanceAnswered(run)
           /\ run.gate = "sufficient"

\* C17 (amended): with prompt enabled, the confirmation gate sits between the
\* wallet unlock and the balance fetch: the user is asked only after the wallet
\* has been unlocked, and the balance fetch, the signing and the submission
\* happen only after the user has accepted.
C17_ConfirmBeforeBalanceCheck ==
    run.args.prompt
        => /\ run.confirm # None => run.unlock = Some(None)
           /\ (run.calls # <<>> \/ run.signs > 0) => run.confirm = Some(TRUE)

C17_Witness ==
    /\ run.args.prompt
    /\ run.confirm = Some(TRUE)
    /\ run.pc = "balance"
    /\ run.calls = <<>>

\* C18 (as claimed): the unlocked coldkey is held only in the signing stage: it
\* is not held while the confirmation is pending, while the balance request or
\* the submission is in flight, or once the run has ended.
C18_KeyHeldOnlyWhileSigning ==
    run.coldkey_held => run.pc = "sign"

CallsTo(r, method, paths) ==
    {i \in 1 .. Len(r.calls) : r.calls[i].method = method /\ r.calls[i].path \in paths}

\* C19: no stage is retried: a run requests the balance endpoint at most once
\* and the submission endpoint at most once, and makes no other request,
\* whatever the responses are.
C19_AtMostOneRequestPerEndpoint ==
    /\ Cardinality(CallsTo(run, "GET", {"/collateral/balance/" \o HotkeyAddress})) <= 1
    /\ Cardinality(CallsTo(run, "POST", {"/entity/create-subaccount", "/entity/register"})) <= 1
    /\ Len(run.calls) <= 2
    /\ Len(run.calls) = Cardinality(Gets(run)) + Cardinality(Posts(run))
    /\ Cardinality(Gets(run)) <= 1
    /\ Cardinality(Posts(run)) <= 1

C19_Witness ==
    /\ run.pc = "done"
    /\ run.exit = "no_response"
    /\ Cardinality(Gets(run)) = 1
    /\ Cardinality(Posts(run)) = 1
    /\ SubmitResponse(run) = None

\* the body of the submission request
SentBody(r) == r.calls[Len(r.calls)].body[1]

NotSignatureItem(item) == item[1] # "signature"

\* C20: the body sent to the submission endpoint is the fields of the signed
\* message with the same values plus one signature field, which holds the hex
\* of the coldkey's signature over that message; without the signature field and
\* ordered by field name, the body serializes to the signed message.
C20_SentBodyIsSignedFieldsPlusSignature ==
    SubmitAnswered(run)
        => LET body == SentBody(run)
               sig == {i \in 1 .. Len(body) : body[i][1] = "signature"}
               rest == SelectSeq(body, NotSignatureItem)
           IN  /\ Cardinality(sig) = 1
               /\ \A i \in sig :
                    body[i][2] = [hex |-> [signer |-> ColdkeyAddress, over |-> run.message]]
               /\ Len(rest) = Len(run.message)
               /\ {rest[i][1] : i \in 1 .. Len(rest)}
                    = {run.message[i][1] : i \in 1 .. Len(run.message)}
               /\ \A i \in 1 .. Len(rest) : \A j \in 1 .. Len(run.message) :
                    rest[i][1] = run.message[j][1] => ToString(rest[i][2]) = run.message[j][2]
               /\ json_dumps_sorted(rest) = run.message

C20_Witness ==
    /\ IsCreate(run)
    /\ SubmitAnswered(run)
    /\ Len(SentBody(run)) = 5
    /\ Len(run.message) = 4

\* the names of the fields of a dict
Keys(items) == {items[i][1] : i \in 1 .. Len(items)}

\* C21: the signed fields are exactly entity_coldkey, entity_hotkey, account_size
\* and asset_class for a subaccount creation and exactly entity_coldkey and
\* entity_hotkey for a registration, and so is the submitted body besides its
\* signature; the signed message and the body of a registration are the same
\* whatever max_subaccounts was given.
C21_SignedFieldSetIsExact ==
    run.signs > 0
        => /\ Keys(SignedData(run)) = Keys(run.message)
           /\ Keys(run.payload[1]) = Keys(run.message) \cup {"signature"}
           /\ IF IsCreate(run)
              THEN Keys(run.message)
                     = {"entity_coldkey", "entity_hotkey", "account_size", "asset_class"}
              ELSE /\ Keys(run.message) = {"entity_coldkey", "entity_hotkey"}
                   /\ run.message = <<<<"entity_coldkey", ToString(ColdkeyAddress)>>,
                                      <<"entity_hotkey", ToString(HotkeyAddress)>>>>
                   /\ run.payload[1]
                        = <<<<"entity_coldkey", ColdkeyAddress>>,
                            <<"entity_hotkey", HotkeyAddress>>,
                            <<"signature", Sign(ColdkeyAddress, run.message)>>>>
           /\ SubmitAnswered(run) => SentBody(run) = run.payload[1]

C21_Witness ==
    /\ run.op = "register"
    /\ run.args.max_subaccounts # DefaultMaxSubaccounts
    /\ SubmitAnswered(run)
    /\ Len(SentBody(run)) = 3

\* the fetched balance is exactly the required amount
BalanceEqualsRequired(r) ==
    LET b == r.responses[1][1].balance_theta
    IN  IF IsCreate(r) THEN b[1] * cost_per_theta = r.args.account_size * b[2]
        ELSE b[1] = registration_fee * b[2]

\* C22: in both operations, when the balance request is answered with a balance,
\* the gate passes exactly when the balance is at least the required amount
\* (account_size / 5000 for a subaccount, 5000 for a registration): an equal
\* balance is sufficient and the run goes on to sign and to submit, and every
\* smaller balance is insufficient.
C22_GatePassesIffAtLeastRequired ==
    (BalanceAnswered(run) /\ HasBalance(run))
        => /\ run.gate \in {"sufficient", "insufficient"}
           /\ run.gate = "sufficient" <=> ~BalanceTooSmall(run)
           /\ BalanceEqualsRequired(run) => run.gate = "sufficient"
           /\ run.gate = "sufficient"
                => /\ run.pc \in {"sign", "submit", "done"}
                   /\ run.pc \in {"submit", "done"} => run.signs = 1
                   /\ run.pc = "done" => Cardinality(Posts(run)) = 1
           /\ run.gate = "insufficient"
                => /\ run.exit = "insufficient"
                   /\ run.signs = 0
                   /\ Posts(run) = {}

C22_Witness ==
    /\ BalanceAnswered(run) /\ HasBalance(run)
    /\ BalanceEqualsRequired(run)
    /\ run.gate = "sufficient"
    /\ run.pc = "done"
    /\ Posts(run) # {}

\* C23: in both operations, when the local balance check passed and the remote
\* then answers the submission with a non-success status (the balance changed
\* in between), the run ends by returning an error (remote rejected), not by an
\* exception, after exactly one submission, one balance fetch and no other
\* request.
C23_LateRejectionIsNormalError ==
    (run.gate = "sufficient" /\ RemoteRejected(run))
        => /\ run.pc = "done"
           /\ run.exception = "none"
           /\ ReturnedError(run)
           /\ run.exit = "remote_rejected"
           /\ Cardinality(Posts(run)) = 1
           /\ Cardinality(Gets(run)) = 1
           /\ Len(run.calls) = 2
           /\ run.signs = 1

C23_Witness ==
    /\ run.op = "register"
    /\ run.gate = "sufficient"
    /\ ~RatLess(run.available[1], Rat(registration_fee, 1))
    /\ RemoteRejected(run)
    /\ SubmitResponse(run)[1] = [status |-> "error", error |-> "Insufficient collateral balance"]
    /\ run.pc = "done"

\* C24: the base endpoint of a run is chosen once from the network argument:
\* "test" selects the testnet validator and every other value the mainnet
\* validator, the two being different; the balance fetch and the submission of
\* the run both go to that endpoint.
C24_OneBaseEndpointPerRun ==
    /\ VANTA_API_BASE_URL_TESTNET # VANTA_API_BASE_URL_MAINNET
    /\ run.pc # "start"
         => /\ run.args.network = "test"
                => run.base_url = Some("https://validator.testnet.vantatrading.io")
            /\ run.args.network # "test"
                => run.base_url = Some("https://validator.mainnet.vantatrading.io")
    /\ \A i \in 1 .. Len(run.calls) : Some(run.calls[i].base_url) = run.base_url
    /\ \A i, j \in 1 .. Len(run.calls) : run.calls[i].base_url = run.calls[j].base_url

C24_Witness ==
    /\ run.args.network = "testnet"
    /\ Len(run.calls) = 2
    /\ run.calls[1].method = "GET"
    /\ run.calls[2].method = "POST"
    /\ run.calls[1].base_url = VANTA_API_BASE_URL_MAINNET
    /\ run.calls[2].base_url = VANTA_API_BASE_URL_MAINNET

\* C25 (as claimed): every run of register and create_subaccount, its external
\* calls returning or failing, eventually reaches a terminal outcome that is a
\* returned result (success, rejected or transport failure), and takes no step
\* after it has ended.
C25_EveryRunEndsInOneOutcome ==
    /\ <>(run.pc = "done" /\ run.result # NoResult)
    /\ [][~Terminal(run)]_vars

SizeOutOfRange(r) == r.args.account_size <= 0 \/ r.args.account_size > 100000

WalletRefused(r) == r.unlock # None /\ r.unlock[1] # None

UserDeclined(r) == r.args.prompt /\ r.confirm = Some(FALSE)

\* the failure a terminated run reports, read from the text of its result
ReportedFailure(r) ==
    LET head == r.result.message[1]
    IN  IF r.result.status = "success" THEN "none"
        ELSE IF head \in {"Account size $", "Account size must be positive"} THEN "size"
        ELSE IF head = "Failed to unlock wallet: " THEN "unlock"
        ELSE IF head = "Subaccount creation cancelled" THEN "cancelled"
        ELSE IF head = "Insufficient collateral for subaccount creation: " THEN "balance"
        ELSE "remote"

\* C26: create_subaccount reports its failures in a fixed precedence: a size out
\* of range, then a wallet that does not unlock, then a declined confirmation,
\* then an insufficient balance, then the remote outcome.  Each one is reported
\* only when all the earlier ones are absent and without the later ones having
\* been asked for, and the wallet is asked for (password prompt and get_coldkey)
\* only after the size validation has passed.
C26_FailurePrecedence ==
    IsCreate(run)
        => /\ (run.unlock # None \/ run.coldkey_held) => ~SizeOutOfRange(run)
           /\ SizeOutOfRange(run)
                => \A i \in 1 .. Len(run.console) : run.console[i] # "password_prompt"
           /\ run.confirm # None => ~WalletRefused(run) /\ run.unlock # None
           /\ BalanceAnswered(run)
                => /\ run.unlock = Some(None)
                   /\ ~UserDeclined(run)
           /\ Posts(run) # {} => run.gate = "sufficient"
           /\ run.pc = "done"
                => /\ run.result.kind = "dict"
                   /\ ReportedFailure(run)
                        = IF SizeOutOfRange(run) THEN "size"
                          ELSE IF WalletRefused(run) THEN "unlock"
                          ELSE IF UserDeclined(run) THEN "cancelled"
                          ELSE IF run.gate = "insufficient" THEN "balance"
                          ELSE IF run.result.status = "success" THEN "none"
                          ELSE "remote"
                   /\ ReportedFailure(run) = "size"
                        => run.unlock = None /\ run.confirm = None /\ run.calls = <<>>
                   /\ ReportedFailure(run) = "unlock"
                        => run.confirm = None /\ run.calls = <<>>
                   /\ ReportedFailure(run) = "cancelled" => run.calls = <<>>
                   /\ ReportedFailure(run) = "balance" => Posts(run) = {}
                   /\ ReportedFailure(run) \in {"none", "remote"} => Cardinality(Posts(run)) = 1

C26_Witness ==
    /\ IsCreate(run)
    /\ run.pc = "done"
    /\ run.args.prompt
    /\ run.unlock = Some(None)
    /\ run.confirm = Some(TRUE)
    /\ run.gate = "insufficient"
    /\ ReportedFailure(run) = "balance"

====
